---- MODULE Spec2Model ----
(***************************************************************************)
(* Model of src/index.py: the Handelsbanken class (OAuth2 consent flow and *)
(* the two Account Information fetches), the two flattening functions and  *)
(* the main script that writes transactions.csv.                           *)
(*                                                                         *)
(* The bank's server and the file system are the environment: every HTTP   *)
(* response and every I/O outcome is an input drawn from a small set.      *)
(* A response is [status_code, is_json, json] or [status_code, is_json,    *)
(* text]; a JSON object is a record whose DOMAIN is the set of keys it     *)
(* carries; an HTML page is a sequence of lexical tokens.  The CSV file is *)
(* the sequence of rows handed to writer.writerow, each row the sequence   *)
(* of its fields.                                                          *)
(***************************************************************************)
EXTENDS Integers, Sequences, FiniteSets, TLC

VARIABLES
    pc,                     \* the statement the script executes next
    exc,                    \* the unhandled exception that ended the run, or None
    calls,                  \* history: the methods called so far, in order
    req,                    \* the last HTTP request sent
    r,                      \* the last HTTP response received
    client_id,
    access_token,
    consent_id,
    authorization_endpoint,
    authorization_code,
    auth_access_token,
    refresh_token,
    bank_accounts,          \* result of get_accounts()
    acct_i,                 \* position of the outer for loop in bank_accounts
    transactions,           \* result of the current get_transactions()
    trans_i,                \* position of the inner for loop in transactions
    trans_csv,              \* result of the last prepare_transaction()
    fetched,                \* history: what get_transactions returned, per account
    file,                   \* rows written to transactions.csv
    file_open               \* whether the file handle is open

session == <<client_id, access_token, consent_id, authorization_endpoint,
             authorization_code, auth_access_token, refresh_token>>

vars == <<pc, exc, calls, req, r, client_id, access_token, consent_id,
          authorization_endpoint, authorization_code, auth_access_token,
          refresh_token, bank_accounts, acct_i, transactions, trans_i,
          trans_csv, fetched, file, file_open>>

(***************************************************************************)
(* Bounds of the enumerated inputs.                                        *)
(***************************************************************************)
MaxAccounts == 2
MaxTrans == 2
MaxMethods == 2

(***************************************************************************)
(* Python values.                                                          *)
(***************************************************************************)
None == "None"

Digits == <<"0", "1", "2", "3", "4", "5", "6", "7", "8", "9">>

RECURSIVE NatToStr(_)
NatToStr(n) ==
    IF n < 10 THEN Digits[n + 1]
    ELSE NatToStr(n \div 10) \o Digits[(n % 10) + 1]

\* str() of a JSON scalar, as an f-string field renders it: a JSON string
\* [str |-> s] is s itself, a JSON integer [num |-> n] its decimal digits.
py_str(v) ==
    IF "str" \in DOMAIN v THEN v.str
    ELSE IF v.num < 0 THEN "-" \o NatToStr(0 - v.num)
    ELSE NatToStr(v.num)

RECURSIVE Concat(_)
Concat(strs) ==
    IF strs = <<>> THEN "" ELSE Head(strs) \o Concat(Tail(strs))

SeqsUpTo(S, n) == UNION {[1..k -> S] : k \in 0..n}

Min(S) == CHOOSE x \in S : \A y \in S : x <= y

(***************************************************************************)
(* Class constants.                                                        *)
(***************************************************************************)
BASE_URL == "https://sandbox.handelsbanken.com/openbanking"
REDIRECT_URI == "https://example.com"
DEFAULT_HEADERS == [accept |-> "application/json", connection |-> "keep-alive"]

(***************************************************************************)
(* Control flow.                                                           *)
(***************************************************************************)
\* authorize() without its last step.
authorize_without_acg ==
    <<"request_ccg_token", "initiate_consent", "initiate_authorization">>

\* Handelsbanken.authorize: the four steps __init__ runs, in order.
authorize ==
    <<"request_ccg_token", "initiate_consent", "initiate_authorization",
      "request_acg_token">>

\* The statement that follows a completed step of authorize(); after the last
\* one __init__ returns and the script calls get_accounts().
After(step) ==
    IF \E i \in 1..(Len(authorize) - 1) : authorize[i] = step
    THEN authorize[(CHOOSE i \in 1..(Len(authorize) - 1) : authorize[i] = step) + 1]
    ELSE "get_accounts"

\* A step completes: control moves on, nothing is raised.
Return(next) ==
    /\ pc' = next
    /\ UNCHANGED <<exc, file_open>>

\* The file opened without a with block: an exception leaves it as it is.
Raise_file_left_open(e) ==
    /\ pc' = "crashed"
    /\ exc' = e
    /\ UNCHANGED file_open

\* An exception propagates to the top of the script: the process ends.  On the
\* way out it leaves the `with open(...)` block, if it was inside it, which
\* closes the file.
Raise(e) ==
    /\ pc' = "crashed"
    /\ exc' = e
    /\ file_open' = FALSE

(***************************************************************************)
(* Responses.                                                              *)
(***************************************************************************)
JsonResponse(status, body) == [status_code |-> status, is_json |-> TRUE, json |-> body]
TextResponse(status, text) == [status_code |-> status, is_json |-> FALSE, text |-> text]
NoResponse == [status_code |-> 0, is_json |-> FALSE, text |-> <<>>]

Statuses == {200, 500}

\* A body that is JSON but is an error object, and a body that is not JSON.
ErrorResponses ==
    {JsonResponse(s, [httpCode |-> "401", httpMessage |-> "Unauthorized"]) : s \in Statuses}
    \cup {TextResponse(500, <<"Internal Server Error">>)}

(***************************************************************************)
(* Handelsbanken.request_ccg_token                                         *)
(***************************************************************************)
request_ccg_token(resp) ==
    /\ pc = "request_ccg_token"
    /\ calls' = Append(calls, "request_ccg_token")
    /\ req' = [method |-> "POST",
               url |-> BASE_URL \o "/oauth2/token/1.0",
               headers |-> [accept |-> DEFAULT_HEADERS.accept,
                            connection |-> DEFAULT_HEADERS.connection,
                            content_type |-> "application/x-www-form-urlencoded"],
               data |-> [grant_type |-> "client_credentials",
                         scope |-> "AIS",
                         client_id |-> client_id]]
    /\ r' = resp
    /\ IF ~resp.is_json
       THEN Raise("JSONDecodeError") /\ UNCHANGED access_token
       ELSE IF "access_token" \notin DOMAIN resp.json
       THEN Raise("KeyError") /\ UNCHANGED access_token
       ELSE access_token' = resp.json.access_token
            /\ Return(After("request_ccg_token"))
    /\ UNCHANGED <<client_id, consent_id, authorization_endpoint, authorization_code,
                   auth_access_token, refresh_token, bank_accounts, acct_i,
                   transactions, trans_i, trans_csv, fetched, file>>

(***************************************************************************)
(* Handelsbanken.initiate_consent                                          *)
(***************************************************************************)
\* What evaluating one element of json_body['scaMethods'] raises, in the
\* filter's lambda or in the loop body: None when it raises nothing.
method_raises(m) ==
    IF "scaMethodType" \notin DOMAIN m THEN "KeyError"
    ELSE IF m.scaMethodType # "REDIRECT" THEN None
    ELSE IF "_links" \notin DOMAIN m THEN "KeyError"
    ELSE IF "authorization" \notin DOMAIN m._links THEN "KeyError"
    ELSE IF m._links.authorization = <<>> THEN "IndexError"
    ELSE IF "href" \notin DOMAIN m._links.authorization[1] THEN "KeyError"
    ELSE None

\* The for loop over the (lazily) filtered methods: every REDIRECT method
\* overwrites the endpoint; the first element that raises ends the loop with
\* the assignments made so far kept.
RECURSIVE redirect_loop(_, _)
redirect_loop(endpoint, methods) ==
    IF methods = <<>> THEN [endpoint |-> endpoint, raised |-> None]
    ELSE LET m == Head(methods) IN
         IF method_raises(m) # None
         THEN [endpoint |-> endpoint, raised |-> method_raises(m)]
         ELSE IF m.scaMethodType = "REDIRECT"
         THEN redirect_loop(m._links.authorization[1].href, Tail(methods))
         ELSE redirect_loop(endpoint, Tail(methods))

\* The loop left at the first REDIRECT method.
redirect_methods_first(endpoint, methods) ==
    LET res == redirect_loop(endpoint, methods)
        firsts == {i \in 1..Len(methods) :
                      /\ \A j \in 1..i : method_raises(methods[j]) = None
                      /\ methods[i].scaMethodType = "REDIRECT"}
    IN IF firsts = {} THEN res
       ELSE [endpoint |-> methods[Min(firsts)]._links.authorization[1].href,
             raised |-> None]

redirect_methods(endpoint, methods) == redirect_loop(endpoint, methods)

initiate_consent(resp) ==
    /\ pc = "initiate_consent"
    /\ calls' = Append(calls, "initiate_consent")
    /\ req' = [method |-> "POST",
               url |-> BASE_URL \o "/psd2/v1/consents",
               headers |-> [accept |-> DEFAULT_HEADERS.accept,
                            connection |-> DEFAULT_HEADERS.connection,
                            authorization |-> "Bearer " \o access_token,
                            content_type |-> "application/json",
                            country |-> "GB",
                            x_ibm_client_id |-> client_id,
                            tpp_request_id |-> "test",
                            tpp_transaction_id |-> "test"],
               json |-> [access |-> "ALL_ACCOUNTS"]]
    /\ r' = resp
    /\ IF ~resp.is_json
       THEN Raise("JSONDecodeError")
            /\ UNCHANGED <<consent_id, authorization_endpoint>>
       ELSE IF "consentId" \notin DOMAIN resp.json
       THEN Raise("KeyError")
            /\ UNCHANGED <<consent_id, authorization_endpoint>>
       ELSE /\ consent_id' = resp.json.consentId
            /\ IF "scaMethods" \notin DOMAIN resp.json
               THEN Raise("KeyError") /\ UNCHANGED authorization_endpoint
               ELSE LET res == redirect_methods(authorization_endpoint,
                                                resp.json.scaMethods) IN
                    /\ authorization_endpoint' = res.endpoint
                    /\ IF res.raised # None
                       THEN Raise(res.raised)
                       ELSE Return(After("initiate_consent"))
    /\ UNCHANGED <<client_id, access_token, authorization_code, auth_access_token,
                   refresh_token, bank_accounts, acct_i, transactions, trans_i,
                   trans_csv, fetched, file>>

(***************************************************************************)
(* Handelsbanken.initiate_authorization                                    *)
(***************************************************************************)
\* The tokens of a page the pattern is made of: the literal text before the
\* group, the literal text after it, and the line break `.` does not match.
CODE_PREFIX == "var authorizationCode = '"
CODE_SUFFIX == "';"
NEWLINE == "\n"

\* Where a match that starts at token i can end: at a CODE_SUFFIX with no line
\* break in between.
MatchEnds(text, i) ==
    {j \in (i + 1)..Len(text) :
        /\ text[j] = CODE_SUFFIX
        /\ \A k \in (i + 1)..(j - 1) : text[k] # NEWLINE}

\* A search that yields an empty code where the page has none.
pattern_search_or_empty(text) ==
    LET starts == {i \in 1..Len(text) :
                      text[i] = CODE_PREFIX /\ MatchEnds(text, i) # {}}
    IN IF starts = {}
       THEN [matched |-> TRUE, group |-> ""]
       ELSE LET i == Min(starts)
                j == Min(MatchEnds(text, i))
            IN [matched |-> TRUE, group |-> Concat(SubSeq(text, i + 1, j - 1))]

\* pattern.search(r.text): the leftmost match, its group the shortest one
\* (`.*?` is lazy); matched is FALSE when search returns None.
pattern_search(text) ==
    LET starts == {i \in 1..Len(text) :
                      text[i] = CODE_PREFIX /\ MatchEnds(text, i) # {}}
    IN IF starts = {}
       THEN [matched |-> FALSE, group |-> ""]
       ELSE LET i == Min(starts)
                j == Min(MatchEnds(text, i))
            IN [matched |-> TRUE, group |-> Concat(SubSeq(text, i + 1, j - 1))]

\* The body of a response as text: r.text.
response_text(resp) == IF resp.is_json THEN <<"{json}">> ELSE resp.text

initiate_authorization(resp) ==
    /\ pc = "initiate_authorization"
    /\ calls' = Append(calls, "initiate_authorization")
    /\ IF authorization_endpoint = None
       THEN \* requests.get('None') raises before anything is sent
            /\ Raise("MissingSchema")
            /\ UNCHANGED <<req, r, authorization_code>>
       ELSE /\ req' = [method |-> "GET",
                       url |-> authorization_endpoint,
                       headers |-> DEFAULT_HEADERS,
                       params |-> [client_id |-> client_id,
                                   response_type |-> "code",
                                   scope |-> "AIS:" \o consent_id,
                                   redirect_uri |-> REDIRECT_URI,
                                   state |-> "state"]]
            /\ r' = resp
            /\ LET m == pattern_search(response_text(resp)) IN
               IF ~m.matched
               THEN Raise("AttributeError") /\ UNCHANGED authorization_code
               ELSE authorization_code' = m.group
                    /\ Return(After("initiate_authorization"))
    /\ UNCHANGED <<client_id, access_token, consent_id, authorization_endpoint,
                   auth_access_token, refresh_token, bank_accounts, acct_i,
                   transactions, trans_i, trans_csv, fetched, file>>

(***************************************************************************)
(* Handelsbanken.request_acg_token                                         *)
(***************************************************************************)
request_acg_token(resp) ==
    /\ pc = "request_acg_token"
    /\ calls' = Append(calls, "request_acg_token")
    /\ req' = [method |-> "POST",
               url |-> BASE_URL \o "/redirect/oauth2/token/1.0",
               headers |-> [accept |-> DEFAULT_HEADERS.accept,
                            connection |-> DEFAULT_HEADERS.connection,
                            content_type |-> "application/x-www-form-urlencoded"],
               data |-> [grant_type |-> "authorization_code",
                         client_id |-> client_id,
                         scope |-> "AIS:" \o consent_id,
                         code |-> authorization_code,
                         redirect_uri |-> REDIRECT_URI]]
    /\ r' = resp
    /\ IF ~resp.is_json
       THEN Raise("JSONDecodeError")
            /\ UNCHANGED <<refresh_token, auth_access_token>>
       ELSE IF "refresh_token" \notin DOMAIN resp.json
       THEN Raise("KeyError")
            /\ UNCHANGED <<refresh_token, auth_access_token>>
       ELSE /\ refresh_token' = resp.json.refresh_token
            /\ IF "access_token" \notin DOMAIN resp.json
               THEN Raise("KeyError") /\ UNCHANGED auth_access_token
               ELSE auth_access_token' = resp.json.access_token
                    /\ Return(After("request_acg_token"))
    /\ UNCHANGED <<client_id, access_token, consent_id, authorization_endpoint,
                   authorization_code, bank_accounts, acct_i, transactions,
                   trans_i, trans_csv, fetched, file>>

(***************************************************************************)
(* Handelsbanken.get_accounts / get_transactions                           *)
(***************************************************************************)
\* The fetch headers built from the client-credentials token.
ais_endpoint_headers_ccg ==
    [accept |-> DEFAULT_HEADERS.accept,
     connection |-> DEFAULT_HEADERS.connection,
     x_ibm_client_id |-> client_id,
     authorization |-> "Bearer " \o access_token,
     tpp_request_id |-> "test",
     tpp_transaction_id |-> "test"]

ais_endpoint_headers ==
    [accept |-> DEFAULT_HEADERS.accept,
     connection |-> DEFAULT_HEADERS.connection,
     x_ibm_client_id |-> client_id,
     authorization |-> "Bearer " \o auth_access_token,
     tpp_request_id |-> "test",
     tpp_transaction_id |-> "test"]

get_accounts(resp) ==
    /\ pc = "get_accounts"
    /\ calls' = Append(calls, "get_accounts")
    /\ req' = [method |-> "GET",
               url |-> BASE_URL \o "/psd2/v2/accounts",
               headers |-> ais_endpoint_headers]
    /\ r' = resp
    /\ IF ~resp.is_json
       THEN Raise("JSONDecodeError") /\ UNCHANGED bank_accounts
       ELSE IF "accounts" \notin DOMAIN resp.json
       THEN Raise("KeyError") /\ UNCHANGED bank_accounts
       ELSE bank_accounts' = resp.json.accounts /\ Return("open")
    /\ UNCHANGED <<session, acct_i, transactions, trans_i, trans_csv, fetched, file>>

\* bank.get_transactions(account['accountId']) at the head of the outer loop.
get_transactions(resp) ==
    /\ pc = "for_account"
    /\ acct_i <= Len(bank_accounts)
    /\ LET account == bank_accounts[acct_i] IN
       IF "accountId" \notin DOMAIN account
       THEN \* account['accountId'] raises before the call
            /\ Raise("KeyError")
            /\ UNCHANGED <<calls, req, r, transactions, trans_i, fetched>>
       ELSE /\ calls' = Append(calls, "get_transactions")
            /\ req' = [method |-> "GET",
                       url |-> BASE_URL \o "/psd2/v2/accounts/" \o account.accountId
                                        \o "/transactions",
                       headers |-> ais_endpoint_headers]
            /\ r' = resp
            /\ IF ~resp.is_json
               THEN Raise("JSONDecodeError")
                    /\ UNCHANGED <<transactions, trans_i, fetched>>
               ELSE IF "transactions" \notin DOMAIN resp.json
               THEN Raise("KeyError")
                    /\ UNCHANGED <<transactions, trans_i, fetched>>
               ELSE /\ transactions' = resp.json.transactions
                    /\ fetched' = Append(fetched, resp.json.transactions)
                    /\ trans_i' = 1
                    /\ Return("for_trans")
    /\ UNCHANGED <<session, bank_accounts, acct_i, trans_csv, file>>

(***************************************************************************)
(* process_amount_key / prepare_transaction                                *)
(***************************************************************************)
amount_raises(amount) ==
    "currency" \notin DOMAIN amount \/ "content" \notin DOMAIN amount

\* The amount formatted without the separating space.
process_amount_key_no_space(amount) == amount.currency \o py_str(amount.content)

process_amount_key(amount) == amount.currency \o " " \o py_str(amount.content)

balance_raises(tb) ==
    \/ "balanceType" \notin DOMAIN tb
    \/ "amount" \notin DOMAIN tb
    \/ amount_raises(tb.amount)

\* The balance formatted without its type.
balance_amount_only(tb) == process_amount_key(tb.amount)

\* The local `balance` of prepare_transaction.
balance(tb) == tb.balanceType \o ": " \o process_amount_key(tb.amount)

\* The key list with the two dates in the other order.
transaction_keys_dates_swapped ==
    <<"status", "amount", "transactionDate", "ledgerDate", "creditDebit",
      "remittanceInformation", "balance">>

transaction_keys ==
    <<"status", "amount", "ledgerDate", "transactionDate", "creditDebit",
      "remittanceInformation", "balance">>

\* Whether the loop body raises KeyError for this key.
field_raises(transaction, key) ==
    /\ key \in DOMAIN transaction
    /\ \/ key = "amount" /\ amount_raises(transaction.amount)
       \/ key = "balance" /\ balance_raises(transaction.balance)

\* The loop body with transaction.get(key) for a missing key.
csv_field_none(transaction, key) ==
    IF key \in DOMAIN transaction
    THEN IF key = "amount" THEN process_amount_key(transaction.amount)
         ELSE IF key = "balance" THEN balance(transaction.balance)
         ELSE transaction[key]
    ELSE None

\* What the loop body appends for this key.
csv_field(transaction, key) ==
    IF key \in DOMAIN transaction
    THEN IF key = "amount" THEN process_amount_key(transaction.amount)
         ELSE IF key = "balance" THEN balance(transaction.balance)
         ELSE transaction[key]
    ELSE ""

\* The for loop over transaction_keys, from the i-th key on.
RECURSIVE prepare_loop(_, _, _)
prepare_loop(transaction, i, csv_ready_transaction) ==
    IF i > Len(transaction_keys)
    THEN [raised |-> FALSE, value |-> csv_ready_transaction]
    ELSE IF field_raises(transaction, transaction_keys[i])
    THEN [raised |-> TRUE, value |-> csv_ready_transaction]
    ELSE prepare_loop(transaction, i + 1,
                      Append(csv_ready_transaction,
                             csv_field(transaction, transaction_keys[i])))

prepare_transaction(transaction) == prepare_loop(transaction, 1, <<>>)

(***************************************************************************)
(* The main script.                                                        *)
(***************************************************************************)
HEADER ==
    <<"Account ID", "Owner Name", "Status", "Amount", "Ledger Date",
      "Transaction Date", "Credit/Debit", "Remittance Information", "Balance">>

\* open('transactions.csv', mode='w'): truncates the file and enters the
\* with block, or fails.
open_file(ok) ==
    /\ pc = "open"
    /\ IF ok
       THEN file' = <<>> /\ file_open' = TRUE /\ pc' = "writeheader" /\ UNCHANGED exc
       ELSE Raise("OSError") /\ UNCHANGED file
    /\ UNCHANGED <<calls, req, r, session, bank_accounts, acct_i, transactions,
                   trans_i, trans_csv, fetched>>

write_header(ok) ==
    /\ pc = "writeheader"
    /\ IF ok
       THEN file' = Append(file, HEADER) /\ Return("for_account")
       ELSE Raise("OSError") /\ UNCHANGED file
    /\ UNCHANGED <<calls, req, r, session, bank_accounts, acct_i, transactions,
                   trans_i, trans_csv, fetched>>

\* The row with its two account fields in the other order.
row_fields_owner_first(account, csv) == <<account.ownerName, account.accountId>> \o csv

row_fields(account, csv) == <<account.accountId, account.ownerName>> \o csv

\* The body of the inner loop: prepare_transaction, row_fields, writerow.
write_row(ok) ==
    /\ pc = "for_trans"
    /\ trans_i <= Len(transactions)
    /\ LET account == bank_accounts[acct_i]
           res == prepare_transaction(transactions[trans_i])
       IN IF res.raised
          THEN Raise("KeyError") /\ UNCHANGED <<trans_csv, file, trans_i>>
          ELSE /\ trans_csv' = res.value
               /\ IF "ownerName" \notin DOMAIN account
                  THEN Raise("KeyError") /\ UNCHANGED <<file, trans_i>>
                  ELSE IF ~ok
                  THEN Raise("OSError") /\ UNCHANGED <<file, trans_i>>
                  ELSE /\ file' = Append(file, row_fields(account, res.value))
                       /\ trans_i' = trans_i + 1
                       /\ Return("for_trans")
    /\ UNCHANGED <<calls, req, r, session, bank_accounts, acct_i, transactions, fetched>>

\* The inner loop is exhausted: the outer loop takes the next account.
next_account ==
    /\ pc = "for_trans"
    /\ trans_i > Len(transactions)
    /\ acct_i' = acct_i + 1
    /\ Return("for_account")
    /\ UNCHANGED <<calls, req, r, session, bank_accounts, transactions, trans_i,
                   trans_csv, fetched, file>>

\* The outer loop is exhausted: the with block ends and closes the file.
close_file ==
    /\ pc = "for_account"
    /\ acct_i > Len(bank_accounts)
    /\ file_open' = FALSE
    /\ pc' = "done"
    /\ UNCHANGED <<exc, calls, req, r, session, bank_accounts, acct_i, transactions,
                   trans_i, trans_csv, fetched, file>>

(***************************************************************************)
(* The environment: what the bank's server can answer.                     *)
(***************************************************************************)
CcgResponses(tokens) ==
    {JsonResponse(s, [access_token |-> t, token_type |-> "BearerToken"]) :
        s \in Statuses, t \in tokens}
    \cup ErrorResponses

Redirect(href) ==
    [scaMethodType |-> "REDIRECT", _links |-> [authorization |-> <<[href |-> href]>>]]

Href1 == "https://sandbox.handelsbanken.com/openbanking/oauth2/authorize/1.0"
Href2 == "https://sandbox.handelsbanken.com/openbanking/oauth2/authorize/2.0"

\* SCA methods: two REDIRECT ones, one of another type, and three malformed.
ScaMethods ==
    {Redirect(Href1), Redirect(Href2),
     [scaMethodType |-> "DECOUPLED",
      _links |-> [authorization |-> <<[href |-> "https://decoupled.example"]>>]],
     [scaMethodType |-> "REDIRECT"],
     [scaMethodType |-> "REDIRECT", _links |-> [authorization |-> <<>>]],
     [_links |-> [authorization |-> <<[href |-> Href1]>>]]}

ConsentResponses(ids, methodLists) ==
    {JsonResponse(s, [consentId |-> c, scaMethods |-> ms]) :
        s \in Statuses, c \in ids, ms \in methodLists}
    \cup {JsonResponse(201, [consentId |-> c]) : c \in ids}
    \cup {JsonResponse(201, [scaMethods |-> <<Redirect(Href1)>>])}
    \cup ErrorResponses

AuthorizationPages(codes) ==
    {TextResponse(s, <<"<script>", CODE_PREFIX, c, CODE_SUFFIX, "</script>">>) :
        s \in Statuses, c \in codes}
    \cup {TextResponse(200, <<CODE_PREFIX, c, CODE_SUFFIX, " x = '", "other", CODE_SUFFIX,
                              NEWLINE, CODE_PREFIX, "later", CODE_SUFFIX>>) : c \in codes}
    \cup {TextResponse(200, <<"<html>", "Login failed", "</html>">>),
          TextResponse(200, <<CODE_PREFIX, "co", NEWLINE, "de", CODE_SUFFIX>>),
          TextResponse(200, <<"code1", CODE_SUFFIX, CODE_PREFIX>>)}
    \cup ErrorResponses

AcgResponses(tokens, refreshTokens) ==
    {JsonResponse(s, [access_token |-> t, refresh_token |-> rt]) :
        s \in Statuses, t \in tokens, rt \in refreshTokens}
    \cup {JsonResponse(200, [access_token |-> t]) : t \in tokens}
    \cup {JsonResponse(200, [refresh_token |-> rt]) : rt \in refreshTokens}
    \cup ErrorResponses

AccountsResponses(accountLists) ==
    {JsonResponse(s, [accounts |-> l]) : s \in Statuses, l \in accountLists}
    \cup ErrorResponses

TransactionsResponses(transLists) ==
    {JsonResponse(s, [transactions |-> l]) : s \in Statuses, l \in transLists}
    \cup ErrorResponses

Account(i) ==
    [accountId |-> "account-" \o NatToStr(i), ownerName |-> "Owner " \o NatToStr(i)]

\* Two well-formed accounts, one without ownerName, one without accountId.
Accounts ==
    {Account(1), Account(2), [accountId |-> "account-3"], [ownerName |-> "Owner 4"]}

Amount1 == [currency |-> "SEK", content |-> [str |-> "100.00"]]
Amount2 == [currency |-> "EUR", content |-> [num |-> 250]]
Amount3 == [currency |-> "GBP", content |-> [num |-> 0 - 1070]]
AmountNoContent == [currency |-> "SEK"]

Balance1 == [balanceType |-> "CLBD", amount |-> Amount1]
Balance2 == [balanceType |-> "AVAILABLE_AMOUNT", amount |-> Amount3]
BalanceNoType == [amount |-> Amount2]
BalanceBadAmount == [balanceType |-> "CLBD", amount |-> [content |-> [num |-> 5]]]

TransFull ==
    [status |-> "BOOKED", amount |-> Amount1, ledgerDate |-> "2020-02-02",
     transactionDate |-> "2020-02-01", creditDebit |-> "CREDIT",
     remittanceInformation |-> "Salary, May", balance |-> Balance1]
TransSparse ==
    [amount |-> Amount2, transactionDate |-> "2020-03-01", creditDebit |-> "DEBIT",
     bookingId |-> "17"]
TransBad == [status |-> "PENDING", amount |-> AmountNoContent]

\* The transactions of the runs.
Transactions == {TransFull, TransSparse, TransBad}

(***************************************************************************)
(* Initial state: Handelsbanken(client_id) has set every field to None and *)
(* is about to run authorize(); transactions.csv may hold an earlier run.  *)
(***************************************************************************)
NoRequest == [method |-> None, url |-> None]

Init ==
    /\ pc = authorize[1]
    /\ exc = None
    /\ calls = <<>>
    /\ req = NoRequest
    /\ r = NoResponse
    /\ client_id = "my-client-id"
    /\ access_token = None
    /\ consent_id = None
    /\ authorization_endpoint = None
    /\ authorization_code = None
    /\ auth_access_token = None
    /\ refresh_token = None
    /\ bank_accounts = <<>>
    /\ acct_i = 1
    /\ transactions = <<>>
    /\ trans_i = 1
    /\ trans_csv = <<>>
    /\ fetched = <<>>
    /\ file \in {<<>>, <<HEADER, <<"stale", "row">>>>}
    /\ file_open = FALSE

(***************************************************************************)
(* Spec: whole runs; one value per token, every list of accounts and of    *)
(* transactions up to the bounds.                                          *)
(***************************************************************************)
RequestCcgToken == \E resp \in CcgResponses({"ccg-1"}) : request_ccg_token(resp)

InitiateConsent ==
    \E resp \in ConsentResponses({"consent-1"},
                                 {<<Redirect(Href1)>>, <<>>, <<[scaMethodType |-> "REDIRECT"]>>}) :
        initiate_consent(resp)

InitiateAuthorization ==
    \E resp \in AuthorizationPages({"code-1"}) : initiate_authorization(resp)

RequestAcgToken ==
    \E resp \in AcgResponses({"acg-1"}, {"refresh-1"}) : request_acg_token(resp)

GetAccounts ==
    \E resp \in AccountsResponses(SeqsUpTo(Accounts, MaxAccounts)) : get_accounts(resp)

OpenFile == \E ok \in BOOLEAN : open_file(ok)

WriteHeader == \E ok \in BOOLEAN : write_header(ok)

GetTransactions ==
    \E resp \in TransactionsResponses(SeqsUpTo(Transactions, MaxTrans)) :
        get_transactions(resp)

WriteRow == \E ok \in BOOLEAN : write_row(ok)

NextAccount == next_account

CloseFile == close_file

Next ==
    \/ RequestCcgToken
    \/ InitiateConsent
    \/ InitiateAuthorization
    \/ RequestAcgToken
    \/ GetAccounts
    \/ OpenFile
    \/ WriteHeader
    \/ GetTransactions
    \/ WriteRow
    \/ NextAccount
    \/ CloseFile

Spec == Init /\ [][Next]_vars

(***************************************************************************)
(* SpecAuth: whole runs; two values per token and every list of SCA        *)
(* methods up to the bound, at most one account with one transaction.      *)
(***************************************************************************)
AuthRequestCcgToken ==
    \E resp \in CcgResponses({"ccg-1", "ccg-2"}) : request_ccg_token(resp)

AuthInitiateConsent ==
    \E resp \in ConsentResponses({"consent-1", "consent-2"},
                                 SeqsUpTo(ScaMethods, MaxMethods)) :
        initiate_consent(resp)

AuthInitiateAuthorization ==
    \E resp \in AuthorizationPages({"code-1", "code-2"}) : initiate_authorization(resp)

AuthRequestAcgToken ==
    \E resp \in AcgResponses({"acg-1", "acg-2"}, {"refresh-1"}) : request_acg_token(resp)

AuthGetAccounts ==
    \E resp \in AccountsResponses({<<>>, <<Account(1)>>, <<Account(1), Account(2)>>}) :
        get_accounts(resp)

AuthGetTransactions ==
    \E resp \in TransactionsResponses({<<>>, <<TransFull>>}) : get_transactions(resp)

NextAuth ==
    \/ AuthRequestCcgToken
    \/ AuthInitiateConsent
    \/ AuthInitiateAuthorization
    \/ AuthRequestAcgToken
    \/ AuthGetAccounts
    \/ OpenFile
    \/ WriteHeader
    \/ AuthGetTransactions
    \/ WriteRow
    \/ NextAccount
    \/ CloseFile

SpecAuth == Init /\ [][NextAuth]_vars

(***************************************************************************)
(* SpecLoop: the loop body on every shape of transaction.  The run has     *)
(* authorized, fetched one account, written the header and just received   *)
(* one transaction for it: any subset of the seven keys, with or without   *)
(* an extra key, over well-formed and malformed amounts and balances.      *)
(***************************************************************************)
PlainValue ==
    [status |-> "BOOKED", ledgerDate |-> "2020-02-02", transactionDate |-> "2020-02-01",
     creditDebit |-> "CREDIT", remittanceInformation |-> "Salary, May",
     bookingId |-> "17"]

ReceivedKeys == {transaction_keys[i] : i \in 1..Len(transaction_keys)} \cup {"bookingId"}

Amounts == {Amount1, Amount2, Amount3, AmountNoContent}

Balances == {Balance1, Balance2, BalanceNoType, BalanceBadAmount}

AllTransactions ==
    {[k \in K |-> IF k = "amount" THEN a
                  ELSE IF k = "balance" THEN b
                  ELSE PlainValue[k]] :
        K \in SUBSET ReceivedKeys, a \in Amounts, b \in Balances}

InitLoop ==
    /\ pc = "for_trans"
    /\ exc = None
    /\ calls = authorize \o <<"get_accounts", "get_transactions">>
    /\ client_id = "my-client-id"
    /\ access_token = "ccg-1"
    /\ consent_id = "consent-1"
    /\ authorization_endpoint = Href1
    /\ authorization_code = "code-1"
    /\ auth_access_token = "acg-1"
    /\ refresh_token = "refresh-1"
    /\ bank_accounts \in {<<Account(1)>>, <<Account(2)>>}
    /\ acct_i = 1
    /\ transactions \in {<<t>> : t \in AllTransactions}
    /\ trans_i = 1
    /\ trans_csv = <<>>
    /\ fetched = <<transactions>>
    /\ req = [method |-> "GET",
              url |-> BASE_URL \o "/psd2/v2/accounts/" \o bank_accounts[1].accountId
                               \o "/transactions",
              headers |-> ais_endpoint_headers]
    /\ r = JsonResponse(200, [transactions |-> transactions])
    /\ file = <<HEADER>>
    /\ file_open = TRUE

NextLoop ==
    \/ WriteRow
    \/ NextAccount
    \/ CloseFile

SpecLoop == InitLoop /\ [][NextLoop]_vars

(***************************************************************************)
(* Vocabulary of the properties.                                           *)
(***************************************************************************)
\* The seven columns prepare_transaction fills, by position.
Columns ==
    <<"status", "amount", "ledgerDate", "transactionDate", "creditDebit",
      "remittanceInformation", "balance">>

\* The columns that carry a value of the transaction unchanged.
PlainColumns == {1, 3, 4, 5, 6}

\* The text of each amount content that occurs in the inputs.
Shown(content) ==
    IF content = [str |-> "100.00"] THEN "100.00"
    ELSE IF content = [num |-> 250] THEN "250"
    ELSE IF content = [num |-> 0 - 1070] THEN "-1070"
    ELSE "5"

WellFormedAmount(a) == {"currency", "content"} \subseteq DOMAIN a

WellFormedBalance(b) ==
    {"balanceType", "amount"} \subseteq DOMAIN b /\ WellFormedAmount(b.amount)

\* A transaction whose amount or balance, if present, lacks a key that the
\* formatting reads.
Malformed(t) ==
    \/ "amount" \in DOMAIN t /\ ~WellFormedAmount(t.amount)
    \/ "balance" \in DOMAIN t /\ ~WellFormedBalance(t.balance)

\* An SCA method the consent step cannot read.
UnreadableMethod(m) ==
    \/ "scaMethodType" \notin DOMAIN m
    \/ /\ m.scaMethodType = "REDIRECT"
       /\ \/ "_links" \notin DOMAIN m
          \/ "authorization" \notin DOMAIN m._links
          \/ Len(m._links.authorization) = 0
          \/ "href" \notin DOMAIN m._links.authorization[1]

RECURSIVE SumLen(_, _)
SumLen(seqs, n) == IF n = 0 THEN 0 ELSE SumLen(seqs, n - 1) + Len(seqs[n])

LastCall == IF calls = <<>> THEN None ELSE calls[Len(calls)]

\* In SpecLoop: the loop body has run on the one transaction received.
BodyRan == pc # "for_trans" \/ trans_i > 1

\* In SpecLoop: prepare_transaction has returned for that transaction.
Prepared == BodyRan /\ trans_csv # <<>>

(***************************************************************************)
(* C1: a run that completes leaves one header row followed by one row per  *)
(* transaction returned, in account order and then transaction order, each *)
(* row starting with the accountId and ownerName of the account whose      *)
(* get_transactions call returned the transaction; with N accounts of M    *)
(* transactions each that is N*M data rows.                                *)
(***************************************************************************)
C1_RowsPerAccountAndTransaction ==
    pc = "done" =>
        /\ Len(fetched) = Len(bank_accounts)
        /\ Len(file) = 1 + SumLen(fetched, Len(fetched))
        /\ file[1] = HEADER
        /\ \A m \in 0..(MaxTrans + 1) :
               (\A i \in 1..Len(fetched) : Len(fetched[i]) = m)
                   => Len(file) = 1 + Len(bank_accounts) * m
        /\ \A i \in 1..Len(fetched) : \A j \in 1..Len(fetched[i]) :
               LET row == file[1 + SumLen(fetched, i - 1) + j]
                   t == fetched[i][j]
               IN /\ row[1] = bank_accounts[i].accountId
                  /\ row[2] = bank_accounts[i].ownerName
                  /\ \A k \in PlainColumns :
                         row[2 + k] = IF Columns[k] \in DOMAIN t THEN t[Columns[k]] ELSE ""

C1_Witness ==
    /\ pc = "done"
    /\ bank_accounts = <<Account(2), Account(1)>>
    /\ fetched = <<(<<TransFull, TransSparse>>), (<<TransSparse, TransFull>>)>>
    /\ Len(file) = 5

(***************************************************************************)
(* C2: the methods are called in the order request_ccg_token,              *)
(* initiate_consent, initiate_authorization, request_acg_token, then the   *)
(* fetches; a step is called only when the output of the one before it is  *)
(* set, and whenever a fetch has been issued access_token, consent_id,     *)
(* authorization_code and auth_access_token are all set.                   *)
(***************************************************************************)
C2_AuthorizedBeforeFetch ==
    LET order == <<"request_ccg_token", "initiate_consent", "initiate_authorization",
                   "request_acg_token">>
    IN /\ \A i \in 1..Len(calls) :
              IF i <= 4 THEN calls[i] = order[i]
              ELSE IF i = 5 THEN calls[i] = "get_accounts"
              ELSE calls[i] = "get_transactions"
       /\ Len(calls) >= 2 => access_token # None
       /\ Len(calls) >= 3 => consent_id # None
       /\ Len(calls) >= 4 => authorization_code # None
       /\ Len(calls) >= 5 => auth_access_token # None
       /\ (\E i \in 1..Len(calls) : calls[i] \in {"get_accounts", "get_transactions"})
              => /\ access_token # None
                 /\ consent_id # None
                 /\ authorization_code # None
                 /\ auth_access_token # None
                 /\ SubSeq(calls, 1, 4) = order

C2_Witness ==
    /\ LastCall = "get_transactions"
    /\ Len(calls) = 7
    /\ auth_access_token = "acg-2"
    /\ authorization_code = "code-2"

(***************************************************************************)
(* C3: a column whose key the transaction lacks is the empty string, and   *)
(* prepare_transaction fails for no transaction on account of a missing    *)
(* key of the seven; a transaction without balance has '' in the Balance   *)
(* column.                                                                 *)
(***************************************************************************)
C3_MissingKeyIsEmptyString ==
    LET t == transactions[1] IN
    /\ Prepared =>
           \A k \in 1..7 : Columns[k] \notin DOMAIN t => trans_csv[k] = ""
    /\ (BodyRan /\ ~Malformed(t)) => Prepared /\ exc # "KeyError"

C3_Witness ==
    /\ Prepared
    /\ DOMAIN transactions[1] = {"status", "amount"}
    /\ trans_csv = <<"BOOKED", "SEK 100.00", "", "", "", "", "">>
    /\ pc = "done"

(***************************************************************************)
(* C5: a balance of type T over an amount of currency C and content V is   *)
(* written "T: C V" in the Balance column; CLBD over SEK 100.00 gives      *)
(* "CLBD: SEK 100.00".                                                     *)
(***************************************************************************)
C5_BalanceColumn ==
    LET t == transactions[1] IN
    (Prepared /\ "balance" \in DOMAIN t) =>
        /\ trans_csv[7] = t.balance.balanceType \o ": " \o t.balance.amount.currency
                              \o " " \o Shown(t.balance.amount.content)
        /\ t.balance = [balanceType |-> "CLBD",
                        amount |-> [currency |-> "SEK", content |-> [str |-> "100.00"]]]
               => trans_csv[7] = "CLBD: SEK 100.00"
        /\ Len(file) = 2 => file[2][9] = trans_csv[7]

C5_Witness ==
    /\ Prepared
    /\ "balance" \in DOMAIN transactions[1]
    /\ Len(file) = 2
    /\ file[2][9] = "CLBD: SEK 100.00"

(***************************************************************************)
(* C6: an amount of currency C and content V is written "C V" in the       *)
(* Amount column; SEK with content 100.00 gives "SEK 100.00".              *)
(***************************************************************************)
C6_AmountColumn ==
    LET t == transactions[1] IN
    (Prepared /\ "amount" \in DOMAIN t) =>
        /\ trans_csv[2] = t.amount.currency \o " " \o Shown(t.amount.content)
        /\ t.amount = [currency |-> "SEK", content |-> [str |-> "100.00"]]
               => trans_csv[2] = "SEK 100.00"
        /\ Len(file) = 2 => file[2][4] = trans_csv[2]

C6_Witness ==
    /\ Prepared
    /\ "amount" \in DOMAIN transactions[1]
    /\ Len(file) = 2
    /\ file[2][4] = "SEK 100.00"

(***************************************************************************)
(* C9: prepare_transaction returns seven fields whatever keys the          *)
(* transaction carries, the k-th field belonging to the k-th of status,    *)
(* amount, ledgerDate, transactionDate, creditDebit,                       *)
(* remittanceInformation, balance; every data row has the nine fields of   *)
(* the header.                                                             *)
(***************************************************************************)
C9_SevenFieldsInOrder ==
    LET t == transactions[1]
        expected == [status |-> "BOOKED", ledgerDate |-> "2020-02-02",
                     transactionDate |-> "2020-02-01", creditDebit |-> "CREDIT",
                     remittanceInformation |-> "Salary, May"]
    IN /\ Prepared =>
              /\ Len(trans_csv) = 7
              /\ \A k \in PlainColumns :
                     trans_csv[k] = IF Columns[k] \in DOMAIN t THEN expected[Columns[k]] ELSE ""
              /\ (trans_csv[2] # "") = ("amount" \in DOMAIN t)
              /\ (trans_csv[7] # "") = ("balance" \in DOMAIN t)
              /\ "balance" \in DOMAIN t => trans_csv[7] # trans_csv[2]
       /\ \A n \in 2..Len(file) :
              /\ Len(file[n]) = 9
              /\ Len(file[n]) = Len(file[1])
              /\ SubSeq(file[n], 3, 9) = trans_csv

C9_Witness ==
    /\ Prepared
    /\ DOMAIN transactions[1] = {"bookingId", "creditDebit", "balance"}
    /\ Len(file) = 2
    /\ file[2] = <<"account-2", "Owner 2", "", "", "", "", "CREDIT", "",
                   "AVAILABLE_AMOUNT: GBP -1070">>

(***************************************************************************)
(* C7: the file handle is open exactly while the script is between a       *)
(* successful open and the end of the write loop, and it is closed in      *)
(* every terminal state, whether the loop completed or get_transactions,   *)
(* prepare_transaction or a row write failed part-way.                     *)
(***************************************************************************)
C7_FileClosedAtEnd ==
    /\ file_open <=> pc \in {"writeheader", "for_account", "for_trans"}
    /\ pc \in {"done", "crashed"} => ~file_open

C7_Witness ==
    /\ pc = "crashed"
    /\ exc = "KeyError"
    /\ LastCall = "get_transactions"
    /\ trans_i = 2
    /\ Len(file) = 2
    /\ ~file_open

(***************************************************************************)
(* C10: when initiate_consent completes, consent_id is the consentId of    *)
(* the response and authorization_endpoint is the authorization href of    *)
(* the last REDIRECT method listed, or still None when none is listed; a   *)
(* well-formed response without a REDIRECT method does complete.           *)
(***************************************************************************)
C10_LastRedirectEndpoint ==
    LastCall = "initiate_consent" =>
        /\ pc \in {"initiate_authorization", "crashed"}
        /\ pc = "initiate_authorization" =>
               /\ r.is_json
               /\ consent_id = r.json.consentId
               /\ \A i \in 1..Len(r.json.scaMethods) :
                      ~UnreadableMethod(r.json.scaMethods[i])
               /\ LET ms == r.json.scaMethods
                      redirects == {i \in 1..Len(ms) : ms[i].scaMethodType = "REDIRECT"}
                  IN IF redirects = {}
                     THEN authorization_endpoint = None
                     ELSE \E i \in redirects :
                              /\ \A j \in redirects : j <= i
                              /\ authorization_endpoint = ms[i]._links.authorization[1].href
        /\ ( /\ r.is_json
             /\ {"consentId", "scaMethods"} \subseteq DOMAIN r.json
             /\ \A i \in 1..Len(r.json.scaMethods) :
                    /\ "scaMethodType" \in DOMAIN r.json.scaMethods[i]
                    /\ r.json.scaMethods[i].scaMethodType # "REDIRECT" )
               => /\ pc = "initiate_authorization"
                  /\ exc = None
                  /\ consent_id = r.json.consentId
                  /\ authorization_endpoint = None

C10_Witness ==
    /\ LastCall = "initiate_consent"
    /\ pc = "initiate_authorization"
    /\ r.json.scaMethods = <<Redirect(Href2), Redirect(Href1)>>
    /\ authorization_endpoint = Href1
    /\ consent_id = "consent-2"

(***************************************************************************)
(* C8: each request carries the value the step before it produced: the     *)
(* consents request the access_token of the client-credentials response,   *)
(* the authorization request and the authorization-code token request the  *)
(* scope of the one consentId, the token request the code of the           *)
(* authorization page, every fetch the access_token of the                 *)
(* authorization-code response and not the client-credentials one; the     *)
(* fetches change no session field.                                        *)
(***************************************************************************)
C8_Step ==
    LET step == calls'[Len(calls')]
        sent == req' # req
    IN calls' # calls =>
        /\ step = "initiate_consent" =>
               req'.headers.authorization = "Bearer " \o r.json.access_token
        /\ (step = "initiate_authorization" /\ sent) =>
               /\ req'.params.scope = "AIS:" \o r.json.consentId
               /\ req'.url = authorization_endpoint
        /\ step = "request_acg_token" =>
               /\ req'.data.scope = req.params.scope
               /\ req'.data.scope = "AIS:" \o consent_id
               /\ req'.data.code = authorization_code
               /\ \E i \in 1..(Len(r.text) - 2) :
                      /\ r.text[i] = CODE_PREFIX
                      /\ r.text[i + 1] = req'.data.code
                      /\ r.text[i + 2] = CODE_SUFFIX
        /\ step = "get_accounts" =>
               /\ req'.headers.authorization = "Bearer " \o r.json.access_token
               /\ req'.headers.authorization # "Bearer " \o access_token
        /\ step = "get_transactions" =>
               /\ req'.headers.authorization = req.headers.authorization
               /\ req'.headers.authorization = "Bearer " \o auth_access_token
               /\ req'.headers.authorization # "Bearer " \o access_token
        /\ step \in {"get_accounts", "get_transactions"} => session' = session

C8_EachStepUsesPreviousOutput == [][C8_Step]_vars

C8_Witness ==
    /\ pc = "done"
    /\ Len(calls) = 7
    /\ req.headers.authorization = "Bearer acg-2"
    /\ access_token = "ccg-1"
    /\ consent_id = "consent-2"
    /\ authorization_code = "code-1"

(***************************************************************************)
(* C4: what the response of a step must be for the step to go on.          *)
(***************************************************************************)
\* The keys the step that sent request q reads from the JSON body.
RequiredKeys(q) ==
    IF "json" \in DOMAIN q THEN {"consentId", "scaMethods"}
    ELSE IF "data" \in DOMAIN q
    THEN IF q.data.grant_type = "client_credentials"
         THEN {"access_token"}
         ELSE {"refresh_token", "access_token"}
    ELSE IF q.url = BASE_URL \o "/psd2/v2/accounts" THEN {"accounts"}
    ELSE {"transactions"}

\* A page that contains the pattern var authorizationCode = '...'; on one line.
HasCodePattern(text) ==
    \E i \in 1..Len(text) : \E j \in (i + 1)..Len(text) :
        /\ text[i] = CODE_PREFIX
        /\ text[j] = CODE_SUFFIX
        /\ \A k \in i..j : text[k] # NEWLINE

\* Response p to request q is not JSON, lacks a key the step reads, or is an
\* authorization page without the pattern.
BadResponse(q, p) ==
    IF "params" \in DOMAIN q
    THEN ~HasCodePattern(response_text(p))
    ELSE \/ ~p.is_json
         \/ ~(RequiredKeys(q) \subseteq DOMAIN p.json)
         \/ /\ "json" \in DOMAIN q
            /\ \E i \in 1..Len(p.json.scaMethods) : UnreadableMethod(p.json.scaMethods[i])

\* C4 as stated: a response that lacks a required key, a non-200 response or
\* a page without the authorization-code pattern aborts the run.
C4_Non200OrBadResponseAborts ==
    calls # <<>> => ((r.status_code # 200 \/ BadResponse(req, r)) => pc = "crashed")

\* C4 amended: a response that is not JSON or lacks a key the step reads, or a
\* page without the authorization-code pattern, ends the run with an
\* unhandled exception, and nothing runs after that; the status code of a
\* response is not looked at.
C4_BadResponseStep ==
    /\ pc # "crashed"
    /\ (calls' # calls /\ BadResponse(req', r')) => (pc' = "crashed" /\ exc' # None)

C4_BadResponseAborts == [][C4_BadResponseStep]_vars

C4_Witness ==
    /\ pc = "crashed"
    /\ exc = "AttributeError"
    /\ r.status_code = 200
    /\ LastCall = "initiate_authorization"
    /\ authorization_code = None
    /\ auth_access_token = None

====
